---- MODULE Spec2Model ----
(***************************************************************************)
(* AppComponent of the CausalClaim Guard UI (app.component.ts) and the     *)
(* CausalAnalyzerService it calls (causal-analyzer.service.ts).            *)
(*                                                                         *)
(* Conventions                                                             *)
(*  - A value that may be null/undefined is an option: None = <<>>,        *)
(*    Some(v) = <<v>>.                                                     *)
(*  - Text that the code inspects character by character (the claim, the   *)
(*    Details of a trust score, the output of toFixed) is a sequence of    *)
(*    one-character strings.  Fixed messages are whole strings; the three  *)
(*    non-ASCII characters of the source's messages are written "-"        *)
(*    (middle dot), "->" (arrow) and "..." (ellipsis).                     *)
(*  - The numbers m and c are doubles in the code.  Here a number is its   *)
(*    count of eighths (m = 5 means 0.625): every such value, and every    *)
(*    product by 100, is exact in binary floating point, so Math.round     *)
(*    and toFixed are computed exactly, ties included.                     *)
(*  - A getter that can raise a TypeError returns [threw, value].          *)
(***************************************************************************)
EXTENDS Integers, Sequences, FiniteSets

\* claim, loading, statusText, backendStatus, result: the fields of
\*   AppComponent that runAnalysis and the getters read or write.
\* sent:    how many requests analyze(payload).subscribe has posted.
\* pending: the requests posted whose response has not arrived yet.
\* okOrder: the ids of the requests answered successfully, in the order the
\*   responses arrived; lastRes: the payload of the last of them (history
\*   only, the code keeps neither).
VARIABLES claim, loading, statusText, backendStatus, result,
          sent, pending, okOrder, lastRes

vars == <<claim, loading, statusText, backendStatus, result,
          sent, pending, okOrder, lastRes>>

None == <<>>
Some(v) == <<v>>
IsSome(o) == o # <<>>
Get(o) == o[1]

(***************************************************************************)
(* Bounds of the model.                                                    *)
(***************************************************************************)
MaxZ == 5
MaxEdges == 2
MaxRequests == 2
MaxViewRequests == 1

(***************************************************************************)
(* Response payloads (AnalyzeResponsePayload).  Only the fields the        *)
(* component class reads are kept: Rung, Template and AggregatedTrust.     *)
(***************************************************************************)
XName == "coffee"
YName == "sleep"
ZPool == <<"age", "diet", "stress", "income", "exercise", "smoking", "genes", "season">>

\* Covariate lists: Z absent, k distinct names for every k up to MaxZ, and
\* lists that break the uniqueness the backend is assumed to keep.
ZLists == { SubSeq(ZPool, 1, k) : k \in 0..MaxZ }
              \cup { <<"age", "age">>, <<"coffee">>, <<"sleep", "age">> }
ZOptions == { None } \cup { Some(z) : z \in ZLists }

\* Edge endpoints: a name that is a covariate in some templates only and a
\* name that is never a node (the edge from X to Y is in Templates).
EdgeEnds == { "age", "ghost" }
EdgePairs == { <<a, b>> : a \in EdgeEnds, b \in EdgeEnds }
EdgeLists == UNION { [1..n -> EdgePairs] : n \in 0..MaxEdges }
EdgeOptions == { None } \cup { Some(e) : e \in EdgeLists }

MkTemplate(z, e) == [X |-> XName, Y |-> YName, Z |-> z, Edges |-> e]

Templates == { MkTemplate(z, e) : z \in ZOptions,
                 e \in { None, Some(<< <<"coffee", "sleep">> >>) } }
               \cup { MkTemplate(z, e) : z \in { None, Some(<<"age">>) }, e \in EdgeOptions }
TemplateOptions == { None } \cup { Some(t) : t \in Templates }

NoSources == <<"n", "o", " ", "s", "o", "u", "r", "c", "e", "s">>
DetailTexts == { <<>>,
                 NoSources,
                 <<"(">> \o NoSources \o <<")">>,
                 <<"N", "o", " ", "s", "o", "u", "r", "c", "e", "s">>,
                 <<"n", "o", " ", "s", "o", "u", "r", "c", "e">>,
                 <<"2", " ", "s", "o", "u", "r", "c", "e", "s">> }
DetailOptions == { None } \cup { Some(d) : d \in DetailTexts }

\* m and c in eighths: 0, 0.125, 0.625, 1, and the out-of-range -0.125, 1.375.
Numbers == { 0, 1, 5, 8, -1, 11 }
Trusts == [m : Numbers, c : Numbers, Details : DetailOptions]
TrustOptions == { None } \cup { Some(t) : t \in Trusts }

Rungs == { "L1", "L2", "L3", "L4" }

MkPayload(r, t, a) == [Rung |-> r, Template |-> t, AggregatedTrust |-> a]

DefaultTemplate == Some(MkTemplate(Some(<<"age">>), Some(<< <<"coffee", "sleep">> >>)))
DefaultTrust == Some([m |-> 5, c |-> 1, Details |-> Some(<<"2", " ", "s", "o", "u", "r", "c", "e", "s">>)])

\* The payloads the view getters are checked on: each field ranges over all
\* its values while the others keep a default.
Payloads == { MkPayload("L1", t, DefaultTrust) : t \in TemplateOptions }
              \cup { MkPayload("L1", DefaultTemplate, a) : a \in TrustOptions }
              \cup { MkPayload(r, t, a) : r \in Rungs,
                       t \in { None, DefaultTemplate }, a \in { None, DefaultTrust } }

\* The payloads of the request/response protocol.
CorePayloads == { MkPayload("L1", DefaultTemplate, DefaultTrust),
                  MkPayload("L2", None, DefaultTrust),
                  MkPayload("L3", DefaultTemplate, None) }

(***************************************************************************)
(* DAG helpers.                                                            *)
(***************************************************************************)
MkNode(id, kind, x, y) == [id |-> id, label |-> <<kind, ": ", id>>, kind |-> kind, x |-> x, y |-> y]

\* Faulty variant: the horizontal step taken per covariate instead of per pair.
ZNodeStepPerIndex(z, index) ==
  LET isTop == index % 2 = 0
      xBase == 80 + index * 80
  IN MkNode(z, "Z", xBase, IF isTop THEN 30 ELSE 150)

\* Faulty variant: the row chosen from the pair number instead of the index.
ZNodeRowFromPair(z, index) ==
  LET rowIndex == index \div 2
      isTop == rowIndex % 2 = 0
      xBase == 80 + rowIndex * 80
  IN MkNode(z, "Z", xBase, IF isTop THEN 30 ELSE 150)

ZNode(z, index) ==
  LET isTop == index % 2 = 0
      rowIndex == index \div 2
      xBase == 80 + rowIndex * 80
  IN MkNode(z, "Z", xBase, IF isTop THEN 30 ELSE 150)

\* get dagNodes(); forEach's index is 0-based, a sequence's is 1-based.
dagNodes ==
  IF ~IsSome(result) \/ ~IsSome(Get(result).Template) THEN <<>>
  ELSE LET tpl == Get(Get(result).Template)
           zs == IF IsSome(tpl.Z) THEN Get(tpl.Z) ELSE <<>>
       IN << MkNode(tpl.X, "X", 80, 90), MkNode(tpl.Y, "Y", 260, 90) >>
            \o [i \in 1..Len(zs) |-> ZNode(zs[i], i - 1)]

\* get dagEdges()
dagEdges ==
  IF ~IsSome(result) \/ ~IsSome(Get(result).Template) THEN <<>>
  ELSE LET tpl == Get(Get(result).Template)
       IN IF ~IsSome(tpl.Edges) THEN <<>>
          ELSE [i \in 1..Len(Get(tpl.Edges)) |->
                  [from |-> Get(tpl.Edges)[i][1], to |-> Get(tpl.Edges)[i][2]]]

\* Array.prototype.find: the first element that satisfies the test, or
\* undefined (None).
FindFirst(nodes, name) ==
  LET hits == { i \in 1..Len(nodes) : nodes[i].id = name }
  IN IF hits = {} THEN None
     ELSE Some(nodes[CHOOSE i \in hits : \A j \in hits : i <= j])

\* Faulty variant: the lookup compares the name with the node's label.
getNodeForByLabel(name) ==
  LET hits == { i \in 1..Len(dagNodes) : dagNodes[i].label = <<name>> }
  IN IF hits = {} THEN None
     ELSE Some(dagNodes[CHOOSE i \in hits : \A j \in hits : i <= j])

getNodeFor(name) == FindFirst(dagNodes, name)

(***************************************************************************)
(* Ladder display.                                                         *)
(***************************************************************************)
\* get rungLabel()
rungLabel ==
  IF ~IsSome(result) THEN "L1 - Association"
  ELSE LET rung == Get(result).Rung
       IN IF rung = "L2" THEN "L2 - Intervention"
          ELSE IF rung = "L3" THEN "L3 - Counterfactual"
          ELSE "L1 - Association"

\* Faulty variant: the style tag has no branch for L3.
rungClassWithoutL3 ==
  IF ~IsSome(result) THEN "badge-rung-l1"
  ELSE IF Get(result).Rung = "L2" THEN "badge-rung-l2"
  ELSE "badge-rung-l1"

\* get rungClass()
rungClass ==
  IF ~IsSome(result) THEN "badge-rung-l1"
  ELSE IF Get(result).Rung = "L2" THEN "badge-rung-l2"
  ELSE IF Get(result).Rung = "L3" THEN "badge-rung-l3"
  ELSE "badge-rung-l1"

(***************************************************************************)
(* Trust presentation.  A number k stands for k/8.                         *)
(***************************************************************************)
Returned(v) == [threw |-> FALSE, value |-> v]
TypeError(v) == [threw |-> TRUE, value |-> v]

\* Math.round(x * 100): the nearest integer, a tie going up.
MathRound100(k) == (100 * k + 4) \div 8

DigitChar(d) == <<"0", "1", "2", "3", "4", "5", "6", "7", "8", "9">>[d + 1]

RECURSIVE Digits(_)
Digits(n) == IF n < 10 THEN <<DigitChar(n)>>
             ELSE Digits(n \div 10) \o <<DigitChar(n % 10)>>

\* Number.prototype.toFixed(2): the sign, then the integer n nearest to
\* |x| * 100 (the larger of two equally near), written with two decimals.
toFixed2(k) ==
  LET a == IF k < 0 THEN -k ELSE k
      n == (100 * a + 4) \div 8
  IN (IF k < 0 THEN <<"-">> ELSE <<>>)
       \o Digits(n \div 100) \o <<".">> \o <<DigitChar((n \div 10) % 10), DigitChar(n % 10)>>

\* String.prototype.includes
Includes(s, sub) ==
  \E i \in 1..(Len(s) - Len(sub) + 1) : SubSeq(s, i, i + Len(sub) - 1) = sub

\* get trustPercent(): reads AggregatedTrust.m of a result without a guard.
trustPercent ==
  IF ~IsSome(result) THEN Returned(0)
  ELSE IF ~IsSome(Get(result).AggregatedTrust) THEN TypeError(0)
  ELSE Returned(MathRound100(Get(Get(result).AggregatedTrust).m))

\* get confPercent()
confPercent ==
  IF ~IsSome(result) THEN Returned(0)
  ELSE IF ~IsSome(Get(result).AggregatedTrust) THEN TypeError(0)
  ELSE Returned(MathRound100(Get(Get(result).AggregatedTrust).c))

DefaultHint == <<"No sources provided - T(m, c) defaults to (0, 0) = complete uncertainty.">>
NoSourcesHint == <<"No sources provided - T(m, c) = (0, 0) -> complete uncertainty about evidence.">>

\* Faulty variant: (0, 0) alone selects the no-sources message.
trustHintOnZeroAlone ==
  IF ~IsSome(result) THEN Returned(DefaultHint)
  ELSE IF ~IsSome(Get(result).AggregatedTrust) THEN TypeError(<<>>)
  ELSE LET agg == Get(Get(result).AggregatedTrust)
           details == IF IsSome(agg.Details) THEN Get(agg.Details) ELSE <<>>
       IN IF agg.m = 0 /\ agg.c = 0
          THEN Returned(NoSourcesHint)
          ELSE Returned(<<"Aggregated trust T(m, c) = (">> \o toFixed2(agg.m) \o <<", ">>
                          \o toFixed2(agg.c) \o <<") - ">> \o details)

\* get trustHint(): the message as the sequence of its pieces.
trustHint ==
  IF ~IsSome(result) THEN Returned(DefaultHint)
  ELSE IF ~IsSome(Get(result).AggregatedTrust) THEN TypeError(<<>>)
  ELSE LET agg == Get(Get(result).AggregatedTrust)
           details == IF IsSome(agg.Details) THEN Get(agg.Details) ELSE <<>>
       IN IF agg.m = 0 /\ agg.c = 0 /\ Includes(details, NoSources)
          THEN Returned(NoSourcesHint)
          ELSE Returned(<<"Aggregated trust T(m, c) = (">> \o toFixed2(agg.m) \o <<", ">>
                          \o toFixed2(agg.c) \o <<") - ">> \o details)

(***************************************************************************)
(* runAnalysis and the callbacks of its subscription.                      *)
(***************************************************************************)
Whitespace == { " ", "\t", "\n" }

\* String.prototype.trim
RECURSIVE Trim(_)
Trim(s) ==
  IF s = <<>> THEN s
  ELSE IF Head(s) \in Whitespace THEN Trim(Tail(s))
  ELSE IF s[Len(s)] \in Whitespace THEN Trim(SubSeq(s, 1, Len(s) - 1))
  ELSE s

\* What the user can have typed into the claim box and the source form.
Claims == { <<>>, <<" ", "\t">>, <<" ", "a", " ">> }
SourceUrls == { <<>>, <<" ">>, <<"u", " ">> }
SourceTypes == { "", "peer-reviewed" }

\* Form fields this model leaves at their constructor values.
domain == "auto"
sourceTitle == <<>>
sourceYear == None
sampleSize == None

\* The request body runAnalysis builds.
Sources(sourceUrl, sourceType) ==
  IF Trim(sourceUrl) = <<>> THEN <<>>
  ELSE << [Title |-> IF Trim(sourceTitle) = <<>> THEN None ELSE Some(Trim(sourceTitle)),
           Url |-> Trim(sourceUrl),
           Type |-> IF sourceType = "" THEN None ELSE Some(sourceType),
           SampleSize |-> sampleSize,
           Year |-> sourceYear,
           PeerReviewed |-> (sourceType = "peer-reviewed")] >>

RequestBody(trimmed, sourceUrl, sourceType) ==
  [TextClaim |-> trimmed,
   Domain |-> IF domain = "auto" THEN "auto" ELSE domain,
   Sources |-> Sources(sourceUrl, sourceType)]

Init ==
  /\ claim = <<>>
  /\ loading = FALSE
  /\ statusText = "Idle - waiting for a claim"
  /\ backendStatus = "connected"
  /\ result = None
  /\ sent = 0
  /\ pending = {}
  /\ okOrder = <<>>
  /\ lastRes = None

\* The user edits the claim box (two-way bound to the field claim).
SetClaim ==
  /\ \E c \in Claims : claim' = c
  /\ UNCHANGED <<loading, statusText, backendStatus, result, sent, pending, okOrder, lastRes>>

\* Faulty variant: the claim is tested without being trimmed.
RunAnalysisUntrimmed(sourceUrl, sourceType, cap) ==
  IF claim = <<>>
  THEN /\ statusText' = "Please enter a claim before running analysis."
       /\ UNCHANGED <<claim, loading, backendStatus, result, sent, pending, okOrder, lastRes>>
  ELSE /\ sent < cap
       /\ loading' = TRUE
       /\ statusText' = "Analyzing claim..."
       /\ sent' = sent + 1
       /\ pending' = pending \cup
             { [id |-> sent + 1, body |-> RequestBody(Trim(claim), sourceUrl, sourceType)] }
       /\ UNCHANGED <<claim, backendStatus, result, okOrder, lastRes>>

\* runAnalysis(): sent counts the requests posted, pending holds those
\* whose response has not arrived; cap bounds the requests of a run.
RunAnalysis(sourceUrl, sourceType, cap) ==
  LET trimmed == Trim(claim)
  IN IF trimmed = <<>>
     THEN /\ statusText' = "Please enter a claim before running analysis."
          /\ UNCHANGED <<claim, loading, backendStatus, result, sent, pending, okOrder, lastRes>>
     ELSE /\ sent < cap
          /\ loading' = TRUE
          /\ statusText' = "Analyzing claim..."
          /\ sent' = sent + 1
          /\ pending' = pending \cup
                { [id |-> sent + 1, body |-> RequestBody(trimmed, sourceUrl, sourceType)] }
          /\ UNCHANGED <<claim, backendStatus, result, okOrder, lastRes>>

\* Faulty variant: a sequence token, a response being applied only when it answers
\* the latest request.
ResponseNextLatestOnly(req, res) ==
  /\ req \in pending
  /\ result' = IF req.id = sent THEN Some(res) ELSE result
  /\ statusText' = "Analysis complete."
  /\ backendStatus' = "connected"
  /\ loading' = FALSE
  /\ pending' = pending \ {req}
  /\ okOrder' = Append(okOrder, req.id)
  /\ lastRes' = Some(res)
  /\ UNCHANGED <<claim, sent>>

\* next: (res) => ... ; okOrder records the requests answered successfully,
\* in the order their responses arrived, and lastRes the last such response.
ResponseNext(req, res) ==
  /\ req \in pending
  /\ result' = Some(res)
  /\ statusText' = "Analysis complete."
  /\ backendStatus' = "connected"
  /\ loading' = FALSE
  /\ pending' = pending \ {req}
  /\ okOrder' = Append(okOrder, req.id)
  /\ lastRes' = Some(res)
  /\ UNCHANGED <<claim, sent>>

\* Faulty variant: a failure clears the displayed result.
ResponseErrorClearsResult(req) ==
  /\ req \in pending
  /\ result' = None
  /\ statusText' = "Error during analysis. Check backend."
  /\ backendStatus' = "error"
  /\ loading' = FALSE
  /\ pending' = pending \ {req}
  /\ UNCHANGED <<claim, sent, okOrder, lastRes>>

\* Faulty variant: a failure leaves the loading flag as it is.
ResponseErrorKeepsLoading(req) ==
  /\ req \in pending
  /\ statusText' = "Error during analysis. Check backend."
  /\ backendStatus' = "error"
  /\ pending' = pending \ {req}
  /\ UNCHANGED <<claim, loading, result, sent, okOrder, lastRes>>

\* error: (err) => ...
ResponseError(req) ==
  /\ req \in pending
  /\ statusText' = "Error during analysis. Check backend."
  /\ backendStatus' = "error"
  /\ loading' = FALSE
  /\ pending' = pending \ {req}
  /\ UNCHANGED <<claim, result, sent, okOrder, lastRes>>

Submit(cap) == \E u \in SourceUrls, t \in SourceTypes : RunAnalysis(u, t, cap)
Succeed(P) == \E req \in pending, res \in P : ResponseNext(req, res)
Fail == \E req \in pending : ResponseError(req)

Next ==
  \/ SetClaim
  \/ Submit(MaxRequests)
  \/ Succeed(CorePayloads)
  \/ Fail

ViewNext ==
  \/ SetClaim
  \/ Submit(MaxViewRequests)
  \/ Succeed(Payloads)
  \/ Fail

\* The request/response protocol with overlapping submissions.
Spec == Init /\ [][Next]_vars

\* The same protocol under the assumption that every request sent gets its
\* response (HttpClient's observable emits once or errors once).
LiveSpec == Spec /\ WF_vars(Succeed(CorePayloads) \/ Fail)

\* The view getters over every payload a response can carry.
ViewSpec == Init /\ [][ViewNext]_vars

(***************************************************************************)
(* Properties.                                                             *)
(***************************************************************************)
HasTemplate == IsSome(result) /\ IsSome(Get(result).Template)
Tpl == Get(Get(result).Template)
Covariates == IF IsSome(Tpl.Z) THEN Get(Tpl.Z) ELSE <<>>
HasTrust == IsSome(result) /\ IsSome(Get(result).AggregatedTrust)
Agg == Get(Get(result).AggregatedTrust)
Range(f) == { f[i] : i \in DOMAIN f }

\* C1: a result whose Template has k covariates yields k + 2 nodes in the
\* order X, Y, Z0, Z1, ...: X at (80, 90), Y at (260, 90), and covariate i
\* at x = 80 + 80 * floor(i / 2), y = 30 for an even i and 150 for an odd i.
C1_NodeLayout ==
  HasTemplate =>
    LET k == Len(Covariates)
    IN /\ Len(dagNodes) = k + 2
       /\ dagNodes[1].id = Tpl.X /\ dagNodes[1].kind = "X"
       /\ dagNodes[1].x = 80 /\ dagNodes[1].y = 90
       /\ dagNodes[2].id = Tpl.Y /\ dagNodes[2].kind = "Y"
       /\ dagNodes[2].x = 260 /\ dagNodes[2].y = 90
       /\ \A i \in 0..(k - 1) :
            /\ dagNodes[i + 3].id = Covariates[i + 1]
            /\ dagNodes[i + 3].kind = "Z"
            /\ dagNodes[i + 3].x = 80 + 80 * (i \div 2)
            /\ dagNodes[i + 3].y = (IF i % 2 = 0 THEN 30 ELSE 150)

\* A result with at least four covariates is displayed.
C1_Witness == HasTemplate /\ Len(Covariates) >= 4 /\ Len(dagNodes) = Len(Covariates) + 2

\* C2: no two nodes at different indexes of dagNodes share a position.
C2_NoOverlap ==
  \A i \in 1..Len(dagNodes), j \in 1..Len(dagNodes) :
    i # j => <<dagNodes[i].x, dagNodes[i].y>> # <<dagNodes[j].x, dagNodes[j].y>>

\* Two covariates sit on each row beside X and Y.
C2_Witness ==
  /\ HasTemplate
  /\ Len(Covariates) >= 4
  /\ \E i \in 1..Len(dagNodes), j \in 1..Len(dagNodes) :
       i # j /\ dagNodes[i].y = dagNodes[j].y /\ dagNodes[i].kind = "Z" /\ dagNodes[j].kind = "Z"

\* Whether text s writes the number k/8 with exactly two decimals: an
\* optional sign, digits, a point, two digits, the value within half a
\* hundredth of |k/8|.
DigitChars == { DigitChar(d) : d \in 0..9 }
DigitValue(ch) == CHOOSE d \in 0..9 : DigitChar(d) = ch

RECURSIVE Decimal(_)
Decimal(ds) == IF ds = <<>> THEN 0
               ELSE 10 * Decimal(SubSeq(ds, 1, Len(ds) - 1)) + DigitValue(ds[Len(ds)])

WritesTwoDecimals(s, k) ==
  LET neg == s # <<>> /\ s[1] = "-"
      body == IF neg THEN Tail(s) ELSE s
      n == Len(body)
      a == IF k < 0 THEN -k ELSE k
  IN /\ neg <=> k < 0
     /\ n >= 4
     /\ body[n - 2] = "."
     /\ \A i \in (1..n) \ {n - 2} : body[i] \in DigitChars
     /\ LET hundredths == 100 * Decimal(SubSeq(body, 1, n - 3))
                            + Decimal(SubSeq(body, n - 1, n))
        IN /\ 8 * hundredths - 100 * a <= 4
           /\ 100 * a - 8 * hundredths <= 4

NoSourcesCase ==
  /\ Agg.m = 0 /\ Agg.c = 0
  /\ IsSome(Agg.Details)
  /\ \E i \in 1..Len(Get(Agg.Details)), j \in 1..Len(Get(Agg.Details)) :
       SubSeq(Get(Agg.Details), i, j) = NoSources

\* C3: trustHint is the default message with no result, the no-sources
\* message when m = 0, c = 0 and Details contains "no sources", and for
\* every other result with an AggregatedTrust the generic message: m and c
\* with two decimals, then Details, or nothing when Details is absent.
C3_TrustHintCases ==
  /\ ~IsSome(result) => trustHint = Returned(DefaultHint)
  /\ HasTrust /\ NoSourcesCase => trustHint = Returned(NoSourcesHint)
  /\ HasTrust /\ ~NoSourcesCase =>
       /\ ~trustHint.threw
       /\ \E p \in 2..Len(trustHint.value), q \in 2..Len(trustHint.value) :
            /\ trustHint.value[p] = ", " /\ trustHint.value[q] = ") - " /\ p < q
            /\ LET sm == SubSeq(trustHint.value, 2, p - 1)
                   sc == SubSeq(trustHint.value, p + 1, q - 1)
               IN /\ WritesTwoDecimals(sm, Agg.m)
                  /\ WritesTwoDecimals(sc, Agg.c)
                  /\ trustHint.value =
                       <<"Aggregated trust T(m, c) = (">> \o sm \o <<", ">> \o sc \o <<") - ">>
                         \o (IF IsSome(Agg.Details) THEN Get(Agg.Details) ELSE <<>>)

\* A (0, 0) trust whose Details does not mention "no sources" gets the
\* generic message.
C3_Witness ==
  /\ HasTrust /\ Agg.m = 0 /\ Agg.c = 0 /\ ~NoSourcesCase
  /\ trustHint.value[1] = "Aggregated trust T(m, c) = ("

NodeNames == { Tpl.X, Tpl.Y } \cup Range(Covariates)
EdgeList == IF IsSome(Tpl.Edges) THEN Get(Tpl.Edges) ELSE <<>>

\* C4: dagEdges has one edge per pair of Template.Edges, in input order,
\* duplicates kept; getNodeFor of an endpoint returns a node with that id
\* exactly when the endpoint is X, Y or in Z, and nothing otherwise.
C4_EdgesAndLookup ==
  HasTemplate =>
    /\ Len(dagEdges) = Len(EdgeList)
    /\ \A i \in 1..Len(EdgeList) :
         /\ dagEdges[i].from = EdgeList[i][1]
         /\ dagEdges[i].to = EdgeList[i][2]
         /\ \A e \in { dagEdges[i].from, dagEdges[i].to } :
              IF e \in NodeNames
              THEN IsSome(getNodeFor(e)) /\ Get(getNodeFor(e)).id = e
              ELSE getNodeFor(e) = None

\* A duplicated edge from a covariate to a name that is no node.
C4_Witness ==
  /\ HasTemplate
  /\ Len(dagEdges) = 2
  /\ dagEdges[1] = dagEdges[2]
  /\ dagEdges[1].from \in Range(Covariates)
  /\ IsSome(getNodeFor(dagEdges[1].from))
  /\ getNodeFor(dagEdges[1].to) = None

\* C5: label and style tag take the same branch: Intervention and
\* badge-rung-l2 exactly for a result with Rung L2, Counterfactual and
\* badge-rung-l3 exactly for Rung L3, Association and badge-rung-l1 otherwise.
C5_LabelMatchesClass ==
  LET isL2 == IsSome(result) /\ Get(result).Rung = "L2"
      isL3 == IsSome(result) /\ Get(result).Rung = "L3"
  IN /\ isL2 <=> (rungLabel = "L2 - Intervention" /\ rungClass = "badge-rung-l2")
     /\ isL3 <=> (rungLabel = "L3 - Counterfactual" /\ rungClass = "badge-rung-l3")
     /\ ~isL2 /\ ~isL3 <=> (rungLabel = "L1 - Association" /\ rungClass = "badge-rung-l1")
     /\ rungLabel \in { "L1 - Association", "L2 - Intervention", "L3 - Counterfactual" }
     /\ rungClass \in { "badge-rung-l1", "badge-rung-l2", "badge-rung-l3" }

\* A result with Rung L3 is displayed.
C5_Witness == IsSome(result) /\ Get(result).Rung = "L3" /\ rungClass = "badge-rung-l3"

Invoked == \E u \in SourceUrls, t \in SourceTypes, cap \in { MaxRequests, MaxViewRequests } :
             RunAnalysis(u, t, cap)

\* C6: runAnalysis on an empty or whitespace-only claim sends no request and
\* changes statusText only; on any other claim it sends one request.
C6_EmptyClaimSendsNothing ==
  [][ Invoked =>
        IF Trim(claim) = <<>>
        THEN /\ statusText' = "Please enter a claim before running analysis."
             /\ UNCHANGED <<result, loading, backendStatus, pending, sent>>
        ELSE /\ sent' = sent + 1
             /\ Cardinality(pending' \ pending) = 1
             /\ pending \subseteq pending'
             /\ \A r \in pending' \ pending : r.body.TextClaim = Trim(claim) ]_vars

\* runAnalysis has run on a whitespace-only claim.
C6_Witness ==
  /\ claim # <<>> /\ Trim(claim) = <<>>
  /\ statusText = "Please enter a claim before running analysis."
  /\ sent = 0 /\ pending = {}

\* A response arrived and was not a success.
Failure == pending' # pending /\ pending' \subseteq pending /\ okOrder' = okOrder

\* C7: the error callback keeps result, sets statusText, backendStatus and
\* loading, and sends nothing; the count of requests grows on runAnalysis
\* only.
C7_FailureKeepsResult ==
  [][ /\ Failure =>
           /\ result' = result
           /\ statusText' = "Error during analysis. Check backend."
           /\ backendStatus' = "error"
           /\ loading' = FALSE
           /\ sent' = sent
      /\ sent' # sent => Invoked ]_vars

\* A failure after a success: the earlier result is still displayed.
C7_Witness ==
  /\ IsSome(result)
  /\ backendStatus = "error"
  /\ statusText = "Error during analysis. Check backend."
  /\ ~loading

\* C8: no getter raises on a stored result, whatever fields it lacks; the
\* getters return defaults instead.
C8_GettersNeverThrow ==
  IsSome(result) =>
    /\ ~trustPercent.threw
    /\ ~confPercent.threw
    /\ ~trustHint.threw
    /\ ~IsSome(Get(result).Template) => dagNodes = <<>> /\ dagEdges = <<>>

LastOk == okOrder[Len(okOrder)]

\* C9: the displayed result is the payload of the successful response that
\* arrived last, whatever the order of the submissions.
C9_LastArrivalWins ==
  /\ result = lastRes
  /\ okOrder = <<>> <=> result = None

\* The displayed result answers an earlier submission than a response that
\* was delivered before it.
C9_Witness ==
  /\ okOrder # <<>>
  /\ IsSome(result) /\ result = lastRes
  /\ \E i \in 1..(Len(okOrder) - 1) : okOrder[i] > LastOk

\* C10: loading is false whenever no request is outstanding, and once true
\* it becomes false again, every request getting its response.
C10_LoadingClears ==
  /\ [](pending = {} => ~loading)
  /\ (loading ~> ~loading)

\* A request is outstanding and loading is shown.
C10_Witness == loading /\ pending # {}

====
